---- MODULE Spec2Model ----
(***************************************************************************)
(* A model of the efi client library: the process-wide configuration      *)
(* (Client, EFI_BASE_URL), the process-wide cached token (Authorization),  *)
(* the authenticator OAuth with its freshness check checkToken and claims  *)
(* decoder decodeJWT, and the resource operations that call it.            *)
(*                                                                         *)
(* Strings the code splits, joins or decodes (token values, token types,   *)
(* the authorization header) are sequences of atoms; an atom is a record   *)
(* [c, n] standing for one run of characters without separators.  All      *)
(* other strings are opaque TLA+ strings.                                  *)
(***************************************************************************)
EXTENDS Integers, Sequences, FiniteSets, TLC

VARIABLES
  Client,          \* var Client *Credentials
  EFI_BASE_URL,    \* var EFI_BASE_URL string
  Authorization,   \* var Authorization Token
  now,             \* time.Now(), in seconds
  last,            \* what the last call did and returned, until the caller goes on
  exchangeFailed,  \* whether the latest call of OAuth() ended in a failed exchange
  calls,           \* the calls of OAuth() in progress in concurrent goroutines
  grantedTo        \* whom the provider issued the cached token to, and where

vars ==
  <<Client, EFI_BASE_URL, Authorization, now, last, exchangeFailed, calls,
    grantedTo>>

\* ------------------------------------------------------------------ bounds

\* The clock runs over 0..MaxTime (seconds).
MaxTime == 6

\* The goroutines that call OAuth() concurrently.
NumCallers == 2

\* ------------------------------------------------------- program constants

\* helper.go: the two fixed hosts.
EFI_PRODUCTION_URL == "https://pix.api.efipay.com.br"

EFI_STAGING_URL == "https://pix-h.api.efipay.com.br"

\* checkToken: time.Now().Add(30*time.Second)
FreshnessMargin == 30

\* decodeJWT: len(parts) != 3
JWTParts == 3

\* net/http status codes the code compares against.
StatusOK == 200

StatusCreated == 201

StatusNoContent == 204

\* ---------------------------------------------------------------- strings

\* One atom: a run of characters with no separator in it.
Ch(c) == [c |-> c, n |-> 0]

SP == Ch(" ")

DOT == Ch(".")

\* The base64url text of the JSON object {"exp": n}.
ExpSeg(n) == [c |-> "b64:{exp:num}", n |-> n]

\* The base64url text of the JSON object {"exp": "n"} (exp is a JSON string).
ExpStrSeg(n) == [c |-> "b64:{exp:str}", n |-> n]

\* The base64url text of the JSON object {} (no exp).
NoExpSeg == Ch("b64:{}")

\* The base64url text of the JSON array [1] (valid JSON, not an object).
ArraySeg == Ch("b64:[1]")

\* The base64url text of the JSON value null.
NullSeg == Ch("b64:null")

\* Characters outside the base64url alphabet.
BadB64Seg == Ch("!!")

\* strings.Split(s, sep): the pieces of s between the separators, at least one.
RECURSIVE SplitFrom(_, _, _, _)
SplitFrom(s, sep, i, cur) ==
  IF i > Len(s) THEN <<cur>>
  ELSE IF s[i] = sep THEN <<cur>> \o SplitFrom(s, sep, i + 1, <<>>)
  ELSE SplitFrom(s, sep, i + 1, Append(cur, s[i]))

Split(s, sep) == SplitFrom(s, sep, 1, <<>>)

\* ------------------------------------------------------------- data types

\* helper.go BadRequest (zero value).
ZeroBadRequest ==
  [Name |-> "", Message |-> "", Error |-> "", ErrorDescription |-> "",
   Errors |-> <<>>]

\* A Go error: msg "" is nil.  raw holds the response body the message was
\* formatted with (at most one), path the file name it names, fields the
\* struct fields a validation error names.
NoError == [msg |-> "", raw |-> <<>>, path |-> "", fields |-> {}]

Err(m) == [NoError EXCEPT !.msg = m]

\* helper.go Token (zero value).
ZeroToken ==
  [AccessToken |-> <<>>, TokenType |-> <<>>, ExpiresIn |-> 0, Scope |-> "",
   Error |-> NoError, BadRequest |-> ZeroBadRequest]

\* Token{Error: err}
ErrorToken(e) == [ZeroToken EXCEPT !.Error = e]

\* Client is a pointer: <<>> is nil, <<c>> points to the Credentials c.
NoClient == <<>>

\* ------------------------------------------------------- the claims decoder

\* base64.RawURLEncoding.DecodeString(seg): the decoded bytes, or an error.
\* A payload atom decodes to the JSON text it stands for, the empty string to
\* no bytes, any other run of alphabet characters to bytes that are not JSON.
B64Decode(seg) ==
  IF \E i \in 1..Len(seg) : seg[i] = BadB64Seg
    THEN [ok |-> FALSE, bytes |-> Ch("")]
  ELSE IF Len(seg) = 0
    THEN [ok |-> TRUE, bytes |-> Ch("")]
  ELSE IF Len(seg) = 1 /\ seg[1].c = "b64:{exp:num}"
    THEN [ok |-> TRUE, bytes |-> [c |-> "{exp:num}", n |-> seg[1].n]]
  ELSE IF Len(seg) = 1 /\ seg[1].c = "b64:{exp:str}"
    THEN [ok |-> TRUE, bytes |-> [c |-> "{exp:str}", n |-> seg[1].n]]
  ELSE IF Len(seg) = 1 /\ seg[1] = NoExpSeg
    THEN [ok |-> TRUE, bytes |-> Ch("{}")]
  ELSE IF Len(seg) = 1 /\ seg[1] = ArraySeg
    THEN [ok |-> TRUE, bytes |-> Ch("[1]")]
  ELSE IF Len(seg) = 1 /\ seg[1] = NullSeg
    THEN [ok |-> TRUE, bytes |-> Ch("null")]
  ELSE [ok |-> TRUE, bytes |-> Ch("not json")]

\* map[string]interface{} as far as the code reads it: the "exp" entry.
NoClaims == [hasExp |-> FALSE, expIsFloat |-> FALSE, exp |-> 0]

\* json.Unmarshal(payload, &claims) into a map: a JSON object parses, and so
\* does the JSON value null, which sets the map to nil with no error; any
\* other JSON value and any text that is not JSON is an error.
UnmarshalClaims(bytes) ==
  IF bytes.c = "{exp:num}"
    THEN [ok |-> TRUE,
          claims |-> [hasExp |-> TRUE, expIsFloat |-> TRUE, exp |-> bytes.n]]
  ELSE IF bytes.c = "{exp:str}"
    THEN [ok |-> TRUE,
          claims |-> [hasExp |-> TRUE, expIsFloat |-> FALSE, exp |-> bytes.n]]
  ELSE IF bytes.c = "{}"
    THEN [ok |-> TRUE, claims |-> NoClaims]
  ELSE IF bytes.c = "null"
    THEN [ok |-> TRUE, claims |-> NoClaims]
  ELSE [ok |-> FALSE, claims |-> NoClaims]

\* decodeJWT(token): the claims or an error, and which decoding steps ran
\* (b64: the base64 decoding, json: the JSON decoding).  decodeParts is the
\* function after strings.Split, decodePayload after DecodeString,
\* decodeParsed after json.Unmarshal.
decodeParsed(parsed) ==
  IF ~parsed.ok
    THEN [claims |-> NoClaims, err |-> Err("failed to decode JSON payload"),
          b64 |-> TRUE, json |-> TRUE]
  ELSE [claims |-> parsed.claims, err |-> NoError, b64 |-> TRUE, json |-> TRUE]

decodePayload(payload) ==
  IF ~payload.ok
    THEN [claims |-> NoClaims, err |-> Err("failed to decode token payload"),
          b64 |-> TRUE, json |-> FALSE]
  ELSE decodeParsed(UnmarshalClaims(payload.bytes))

decodeParts(parts) ==
  IF Len(parts) # JWTParts
    THEN [claims |-> NoClaims, err |-> Err("invalid token: must have 3 parts"),
          b64 |-> FALSE, json |-> FALSE]
  ELSE decodePayload(B64Decode(parts[2]))

decodeJWT(token) == decodeParts(Split(token, DOT))

\* --------------------------------------------------------- the token cache

\* authorization(): fmt.Sprintf("%s %s", TokenType, AccessToken) of token A.
authorization(A) == A.TokenType \o <<SP>> \o A.AccessToken

\* Mutant: not before instead of after.
After_NonStrict(exp, t) == exp >= t + FreshnessMargin

\* Mutant: the safety margin forgotten.
After_NoMargin(exp, t) == exp > t

\* time.Unix(int64(exp), 0).After(time.Now().Add(30*time.Second))
After(exp, t) == exp > t + FreshnessMargin

\* checkToken() on cached token A at time t.  nil |-> TRUE is the nil result;
\* otherwise tok is the token pointed to (cached says it is &Authorization).
\* decoded lists the strings handed to decodeJWT.  checkDecoded is the part
\* after claims, err := decodeJWT(token), with d the decoder's result.
checkDecoded(A, t, token, d) ==
  IF d.err # NoError
    THEN [nil |-> FALSE, cached |-> FALSE, tok |-> ErrorToken(d.err),
          decoded |-> <<token>>]
  ELSE IF d.claims.hasExp /\ d.claims.expIsFloat /\ After(d.claims.exp, t)
    THEN [nil |-> FALSE, cached |-> TRUE, tok |-> A, decoded |-> <<token>>]
  ELSE [nil |-> TRUE, cached |-> FALSE, tok |-> ZeroToken, decoded |-> <<token>>]

\* Mutant: the cached token is never taken as fresh.
checkToken_NeverFresh(A, t) ==
  IF A.AccessToken # <<>>
    THEN [checkDecoded(A, t, Split(authorization(A), SP)[2],
                       decodeJWT(Split(authorization(A), SP)[2]))
            EXCEPT !.nil = TRUE, !.cached = FALSE]
  ELSE [nil |-> TRUE, cached |-> FALSE, tok |-> ZeroToken, decoded |-> <<>>]

checkToken(A, t) ==
  IF A.AccessToken # <<>>
    THEN checkDecoded(A, t, Split(authorization(A), SP)[2],
                      decodeJWT(Split(authorization(A), SP)[2]))
  ELSE [nil |-> TRUE, cached |-> FALSE, tok |-> ZeroToken, decoded |-> <<>>]

\* ------------------------------------------------------ the Credential Store

\* Files present on the local filesystem.
ExistingFiles == {"ca.pem", "key.pem"}

\* Credential Sets with every required field present and both files existing.
ValidCredentials ==
  [ClientID : {"id"}, ClientSecret : {"secret"}, Timeout : {-1, 30},
   Sandbox : BOOLEAN, CA : {"ca.pem"}, Key : {"key.pem"}]

\* The Credentials values a caller may configure with: the valid ones, and
\* each of them with one field left at its zero value or one path changed to
\* a file that does not exist.
CredentialInputs ==
  ValidCredentials
  \cup {[c EXCEPT !.ClientID = ""] : c \in ValidCredentials}
  \cup {[c EXCEPT !.ClientSecret = ""] : c \in ValidCredentials}
  \cup {[c EXCEPT !.Timeout = 0] : c \in ValidCredentials}
  \cup {[c EXCEPT !.CA = p] : c \in ValidCredentials, p \in {"", "missing.pem"}}
  \cup {[c EXCEPT !.Key = p] : c \in ValidCredentials, p \in {"", "missing.pem"}}

\* fileExists(fileName): os.Stat reports the file as not existing.
fileExists(fileName) ==
  IF fileName \notin ExistingFiles
    THEN [Err("file not found") EXCEPT !.path = fileName]
  ELSE NoError

\* validation.ValidateStruct with validation.Required on five fields: a field
\* fails when it holds its type's zero value ("" or 0).
ValidateStruct(c) ==
  LET missing ==
        (IF c.ClientID = "" THEN {"ClientID"} ELSE {})
        \cup (IF c.ClientSecret = "" THEN {"ClientSecret"} ELSE {})
        \cup (IF c.Timeout = 0 THEN {"Timeout"} ELSE {})
        \cup (IF c.CA = "" THEN {"CA"} ELSE {})
        \cup (IF c.Key = "" THEN {"Key"} ELSE {}) IN
  IF missing # {} THEN [Err("cannot be blank") EXCEPT !.fields = missing]
  ELSE NoError

\* Mutant: the two files not looked for.
NewClientError_NoFileCheck(c) == ValidateStruct(c)

\* The error NewClient returns for c (NoError when it commits c).
NewClientError(c) ==
  IF ValidateStruct(c) # NoError THEN ValidateStruct(c)
  ELSE IF fileExists(c.CA) # NoError THEN fileExists(c.CA)
  ELSE IF fileExists(c.Key) # NoError THEN fileExists(c.Key)
  ELSE NoError

\* Mutant: the two hosts the wrong way round.
BaseURLFor_Swapped(c) ==
  IF c.Sandbox THEN EFI_PRODUCTION_URL ELSE EFI_STAGING_URL

\* The base URL NewClient selects for c.
BaseURLFor(c) == IF c.Sandbox THEN EFI_STAGING_URL ELSE EFI_PRODUCTION_URL

\* ------------------------------------------------------------ the provider

\* Expiry offsets (seconds after the time of issue) the provider may put in
\* a token's exp claim.
ExpOffsets == {0, 31, 60}

Bearer == <<Ch("Bearer")>>

\* header.payload.signature around the payload segment seg.
JWT(seg) == <<Ch("hdr"), DOT>> \o seg \o <<DOT, Ch("sig")>>

\* Access token values the provider may answer with at time t.
AccessTokens(t) ==
  {<<Ch("abc")>>}
  \cup {JWT(<<ExpSeg(t + d)>>) : d \in ExpOffsets}
  \cup {JWT(<<ExpStrSeg(99)>>), JWT(<<NoExpSeg>>), JWT(<<ArraySeg>>),
        JWT(<<BadB64Seg>>), JWT(<<>>), JWT(<<NullSeg>>),
        <<Ch("hdr"), DOT, ExpSeg(99)>>,
        JWT(<<ExpSeg(99)>>) \o <<DOT, Ch("x")>>}

\* A response body of the token endpoint.  json says whether the body is
\* well-formed JSON that unmarshals into Token; absent members hold the
\* zero value.
EmptyBody ==
  [json |-> FALSE, access_token |-> <<>>, token_type |-> <<>>,
   expires_in |-> 0, scope |-> "", name |-> "", message |-> "", error |-> "",
   error_description |-> "", errors |-> <<>>]

\* The body "{}".
EmptyObjectBody == [EmptyBody EXCEPT !.json = TRUE]

\* {"access_token": a, "token_type": "Bearer", "expires_in": 3600, "scope": ..}
TokenBody(a) ==
  [EmptyObjectBody EXCEPT !.access_token = a, !.token_type = Bearer,
                          !.expires_in = 3600, !.scope = "cob.write"]

\* {"error": "invalid_client", "error_description": ...}
InvalidClientBody ==
  [EmptyObjectBody EXCEPT !.error = "invalid_client",
                          !.error_description = "Invalid or inactive credentials"]

\* {"nome": "json_invalido", "mensagem": ..., "errors": [{key, path, message}]}
ValidationErrorBody ==
  [EmptyObjectBody EXCEPT
     !.name = "validation_error", !.message = "invalid request",
     !.errors = <<[Key |-> "grant_type", Path |-> ".grant_type",
                   Message |-> "required"]>>]

\* Bodies the token endpoint may answer with at time t.
TokenBodies(t) ==
  {EmptyBody, EmptyObjectBody, InvalidClientBody, ValidationErrorBody}
  \cup {TokenBody(a) : a \in AccessTokens(t)}
  \cup {[TokenBody(JWT(<<ExpSeg(99)>>)) EXCEPT !.token_type = <<>>]}

TokenStatuses == {StatusOK, 400}

\* Errors of client.Do: timeout, connection refused, TLS handshake failure.
NetErrors == {"timeout", "connection refused", "tls handshake failure"}

\* What the environment does to one exchange: whether the certificate pair
\* loads, whether client.Do succeeds (net = "ok"), whether the body can be
\* read, and the response.  Members a failure makes unread are fixed.
EnvCertFail ==
  [cert |-> FALSE, net |-> "ok", read |-> TRUE, status |-> StatusOK,
   body |-> EmptyBody]

TokenEnv(t) ==
  {EnvCertFail}
  \cup {[EnvCertFail EXCEPT !.cert = TRUE, !.net = e] : e \in NetErrors}
  \cup {[EnvCertFail EXCEPT !.cert = TRUE, !.read = FALSE]}
  \cup {[EnvCertFail EXCEPT !.cert = TRUE, !.status = s, !.body = b] :
          s \in TokenStatuses, b \in TokenBodies(t)}

\* json.Unmarshal(body, &token) into Token{}: Error is tagged json:"-".
UnmarshalToken(b) ==
  [AccessToken |-> b.access_token, TokenType |-> b.token_type,
   ExpiresIn |-> b.expires_in, Scope |-> b.scope, Error |-> NoError,
   BadRequest |->
     [Name |-> b.name, Message |-> b.message, Error |-> b.error,
      ErrorDescription |-> b.error_description, Errors |-> b.errors]]

\* -------------------------------------------------------- the Authenticator

\* An HTTP request handed to client.Do.
\* base/path/id is the URL, user and pass the basic-auth pair, authorization
\* the header of that name, chave the "chave" member of the JSON body.
Request(method, path, id, user, pass, auth, chave) ==
  [method |-> method, base |-> EFI_BASE_URL, path |-> path, id |-> id,
   user |-> user, pass |-> pass, authorization |-> auth, chave |-> chave,
   contentType |-> "application/json"]

\* POST {EFI_BASE_URL}/oauth/token with basic auth.
TokenRequest ==
  Request("POST", "/oauth/token", "", Client[1].ClientID,
          Client[1].ClientSecret, <<>>, "")

\* What one call does besides returning: ret is the Token returned, auth the
\* value of Authorization afterwards, reqs the requests handed to client.Do,
\* certLoads the calls of tls.LoadX509KeyPair, decoded the strings handed to
\* decodeJWT, ok200 the bodies of the exchanges that got 200 and unmarshalled,
\* called whether OAuth() was called, xfail whether its exchange was begun
\* and failed.
Outcome(ret, auth, reqs, certLoads, decoded) ==
  [ret |-> ret, auth |-> auth, reqs |-> reqs, certLoads |-> certLoads,
   decoded |-> decoded, ok200 |-> <<>>, called |-> TRUE,
   xfail |-> certLoads > 0]

\* OAuth() with cached token A, in environment e.  Exchange is the function
\* from "if token := checkToken(); token != nil" on, ck being checkToken's
\* result.
Exchange(A, e, ck) ==
  IF ~ck.nil
    THEN Outcome(ck.tok, A, <<>>, 0, ck.decoded)
  ELSE IF ~e.cert
    THEN Outcome(ErrorToken(Err("failed to load certificates")), A, <<>>, 1,
                 ck.decoded)
  ELSE IF e.net # "ok"
    THEN Outcome(ErrorToken(Err(e.net)), A, <<TokenRequest>>, 1, ck.decoded)
  ELSE IF ~e.read
    THEN Outcome(ErrorToken(Err("read error")), A, <<TokenRequest>>, 1,
                 ck.decoded)
  ELSE IF ~e.body.json
    THEN Outcome(ErrorToken(Err("json: cannot unmarshal")), A,
                 <<TokenRequest>>, 1, ck.decoded)
  ELSE IF e.status # StatusOK
    THEN Outcome(ErrorToken([Err("bad request") EXCEPT !.raw = <<e.body>>]), A,
                 <<TokenRequest>>, 1, ck.decoded)
  ELSE [Outcome(UnmarshalToken(e.body), UnmarshalToken(e.body),
                <<TokenRequest>>, 1, ck.decoded)
          EXCEPT !.ok200 = <<e.body>>, !.xfail = FALSE]

\* Mutant: the check of Client forgotten.
OAuthCall_Unguarded(A, e) == Exchange(A, e, checkToken(A, now))

\* Mutant: the token of a 200 answer returned and not stored.
OAuthCall_NoStore(A, e) ==
  IF Client = NoClient
    THEN Outcome(ErrorToken(Err("client not defined")), A, <<>>, 0, <<>>)
  ELSE [Exchange(A, e, checkToken(A, now)) EXCEPT !.auth = A]

\* Mutant: the status of the answer not looked at.
OAuthCall_AnyStatus(A, e) ==
  IF Client = NoClient
    THEN Outcome(ErrorToken(Err("client not defined")), A, <<>>, 0, <<>>)
  ELSE IF Exchange(A, e, checkToken(A, now)).ret.Error.msg = "bad request"
    THEN [Exchange(A, e, checkToken(A, now))
            EXCEPT !.ret = UnmarshalToken(e.body),
                   !.auth = UnmarshalToken(e.body),
                   !.ok200 = <<e.body>>, !.xfail = FALSE]
  ELSE Exchange(A, e, checkToken(A, now))

\* Mutant: a request that failed in client.Do sent once more.
OAuthCall_Retries(A, e) ==
  IF Client = NoClient
    THEN Outcome(ErrorToken(Err("client not defined")), A, <<>>, 0, <<>>)
  ELSE IF Exchange(A, e, checkToken(A, now)).ret.Error.msg \in NetErrors
    THEN [Exchange(A, e, checkToken(A, now))
            EXCEPT !.reqs = <<TokenRequest, TokenRequest>>]
  ELSE Exchange(A, e, checkToken(A, now))

\* Mutant: the error of tls.LoadX509KeyPair ignored.
OAuthCall_CertIgnored(A, e) ==
  IF Client = NoClient
    THEN Outcome(ErrorToken(Err("client not defined")), A, <<>>, 0, <<>>)
  ELSE Exchange(A, [e EXCEPT !.cert = TRUE], checkToken(A, now))

OAuthCall(A, e) ==
  IF Client = NoClient
    THEN Outcome(ErrorToken(Err("client not defined")), A, <<>>, 0, <<>>)
  ELSE Exchange(A, e, checkToken(A, now))

\* Whether OAuth() with cached token A gets as far as loading certificates.
Exchanges(A) == Client # NoClient /\ checkToken(A, now).nil

\* The environments that make a difference to OAuth() with cached token A.
EnvFor(A) == IF Exchanges(A) THEN TokenEnv(now) ELSE {EnvCertFail}

\* ------------------------------------------------- the resource operations

\* The result object of a resource operation (Key, Pix, Webhook) as far as
\* the code and its callers read it: the key list and the embedded BadRequest.
ZeroObject == [Chaves |-> <<>>, BadRequest |-> ZeroBadRequest]

\* A response body of a resource endpoint; json says whether it unmarshals.
EmptyResBody == [json |-> FALSE, chaves |-> <<>>, badRequest |-> ZeroBadRequest]

\* {"chaves": ["k1", "k2"]}
KeysBody == [EmptyResBody EXCEPT !.json = TRUE, !.chaves = <<"k1", "k2">>]

\* {"nome": "...", "mensagem": "..."}: the provider's error fields.
ErrorResBody ==
  [EmptyResBody EXCEPT
     !.json = TRUE,
     !.badRequest = [ZeroBadRequest EXCEPT !.Name = "chave_invalida",
                                           !.Message = "invalid key"]]

ResBodies == {EmptyResBody, KeysBody, ErrorResBody}

ResStatuses == {StatusOK, StatusCreated, StatusNoContent, 400}

\* What the environment does to one resource request.
ResEnvCertFail ==
  [cert |-> FALSE, net |-> "ok", read |-> TRUE, status |-> StatusOK,
   body |-> EmptyResBody]

ResEnv ==
  {ResEnvCertFail}
  \cup {[ResEnvCertFail EXCEPT !.cert = TRUE, !.net = "timeout"]}
  \cup {[ResEnvCertFail EXCEPT !.cert = TRUE, !.read = FALSE]}
  \cup {[ResEnvCertFail EXCEPT !.cert = TRUE, !.status = s, !.body = b] :
          s \in ResStatuses, b \in ResBodies}

\* The exchanges the environment may answer inside a resource operation.
ResTokenEnv(t) ==
  {EnvCertFail, [EnvCertFail EXCEPT !.cert = TRUE, !.net = "timeout"],
   [EnvCertFail EXCEPT !.cert = TRUE, !.status = 400,
                       !.body = InvalidClientBody],
   [EnvCertFail EXCEPT !.cert = TRUE, !.body = EmptyObjectBody],
   [EnvCertFail EXCEPT !.cert = TRUE, !.body = TokenBody(<<Ch("abc")>>)]}
  \cup {[EnvCertFail EXCEPT !.cert = TRUE,
                            !.body = TokenBody(JWT(<<ExpSeg(t + d)>>))] :
          d \in ExpOffsets \ {0}}

ResEnvForToken(A) == IF Exchanges(A) THEN ResTokenEnv(now) ELSE {EnvCertFail}

\* json.Unmarshal(body, &obj): members of the body overwrite the object's.
UnmarshalObject(b) == [Chaves |-> b.chaves, BadRequest |-> b.badRequest]

\* What a resource operation does: err is the error returned, obj the result
\* object afterwards, sent whether the operation handed its own request to
\* client.Do, status the status of the response it got and body that
\* response's body (0 and <<>> when it read none); the rest as in Outcome.
Result(err, obj, o, reqs, certLoads, sent, status) ==
  [err |-> err, obj |-> obj, ret |-> o.ret, auth |-> o.auth,
   reqs |-> o.reqs \o reqs, certLoads |-> o.certLoads + certLoads,
   decoded |-> o.decoded, ok200 |-> o.ok200, called |-> o.called,
   xfail |-> o.xfail, sent |-> sent, status |-> status, body |-> <<>>]

\* The part every resource operation shares, from token := OAuth() to its
\* return: method, path/id and chave make the request, want is the status
\* required, lenient says that an unmarshal error is ignored on that status.
\* ResourceRequest is that part given OAuth's outcome o and the request req
\* the operation builds; the header is authorization() after OAuth returned.
\* Mutant: the error of OAuth() not looked at.
ResourceRequest_IgnoresOAuthError(o, r, req, want, lenient) ==
  IF ~r.cert
    THEN Result(Err("tls: failed to load key pair"), ZeroObject, o, <<>>, 1,
                FALSE, 0)
  ELSE IF r.net # "ok"
    THEN Result(Err(r.net), ZeroObject, o, <<req>>, 1, TRUE, 0)
  ELSE [Result(IF r.status # want THEN Err("bad request") ELSE NoError,
               IF r.body.json THEN UnmarshalObject(r.body) ELSE ZeroObject,
               o, <<req>>, 1, TRUE, r.status) EXCEPT !.body = <<r.body>>]

ResourceRequest(o, r, req, want, lenient) ==
  IF o.ret.Error # NoError
    THEN Result(o.ret.Error, ZeroObject, o, <<>>, 0, FALSE, 0)
  ELSE IF ~r.cert
    THEN Result(Err("tls: failed to load key pair"), ZeroObject, o, <<>>, 1,
                FALSE, 0)
  ELSE IF r.net # "ok"
    THEN Result(Err(r.net), ZeroObject, o, <<req>>, 1, TRUE, 0)
  ELSE IF ~r.read
    THEN Result(Err("read error"), ZeroObject, o, <<req>>, 1, TRUE, 0)
  ELSE IF ~r.body.json /\ ~(lenient /\ r.status = want)
    THEN [Result(Err("json: cannot unmarshal"), ZeroObject, o, <<req>>, 1,
                 TRUE, r.status) EXCEPT !.body = <<r.body>>]
  ELSE [Result(IF r.status # want THEN Err("bad request") ELSE NoError,
               IF r.body.json THEN UnmarshalObject(r.body) ELSE ZeroObject,
               o, <<req>>, 1, TRUE, r.status) EXCEPT !.body = <<r.body>>]

ResourceAfterOAuth(o, r, method, path, id, chave, want, lenient) ==
  ResourceRequest(o, r,
                  Request(method, path, id, "", "", authorization(o.auth), chave),
                  want, lenient)

ResourceCall(A, e, r, method, path, id, chave, want, lenient) ==
  ResourceAfterOAuth(OAuthCall(A, e), r, method, path, id, chave, want, lenient)

\* The resource environments that make a difference after OAuth() with
\* cached token A in environment e.
ResEnvFor(A, e) ==
  IF OAuthCall(A, e).ret.Error = NoError THEN ResEnv ELSE {ResEnvCertFail}

\* Key.Fetch(): GET /v2/gn/evp, 200 required.
KeyFetchCall(A, e, r) ==
  ResourceCall(A, e, r, "GET", "/v2/gn/evp", "", "", StatusOK, FALSE)

\* Pix.Fetch(): GET /v2/cob/{txid}, 200 required; an empty TxID fails first.
PixFetchCall(p, A, e, r) ==
  IF p.TxID = ""
    THEN Result(Err("txid is required"), ZeroObject,
                [Outcome(ZeroToken, A, <<>>, 0, <<>>) EXCEPT !.called = FALSE],
                <<>>, 0, FALSE, 0)
  ELSE ResourceCall(A, e, r, "GET", "/v2/cob", p.TxID, "", StatusOK, FALSE)

\* Pix.Create() once p.Chave is set to chave: POST, or PUT when TxID is set,
\* /v2/cob/{txid}, 201 required.
PixCreateRequest(p, chave, A, e, r) ==
  ResourceCall(A, e, r, IF p.TxID # "" THEN "PUT" ELSE "POST", "/v2/cob",
               p.TxID, chave, StatusCreated, FALSE)

\* Pix.Create(): with no Chave, Key.Fetch() in environment (e1, r1) supplies
\* the first key; then the request in environment (e2, r2).
\* PixCreateWithKeys is the function after keys.Fetch() returned k; After2
\* is the result c of the request, counting also what Key.Fetch() did.
After2(k, c) ==
  [c EXCEPT !.reqs = k.reqs \o c.reqs, !.certLoads = k.certLoads + c.certLoads,
            !.decoded = k.decoded \o c.decoded, !.ok200 = k.ok200 \o c.ok200]

PixCreateWithKeys(p, k, e2, r2) ==
  IF k.err # NoError
    THEN [k EXCEPT !.obj = ZeroObject, !.sent = FALSE, !.status = 0,
                   !.body = <<>>]
  ELSE IF Len(k.obj.Chaves) = 0
    THEN [k EXCEPT !.err = Err("no pix keys found"), !.obj = ZeroObject,
                   !.sent = FALSE, !.status = 0, !.body = <<>>]
  ELSE After2(k, PixCreateRequest(p, k.obj.Chaves[1], k.auth, e2, r2))

PixCreateCall(p, A, e1, r1, e2, r2) ==
  IF p.Chave = ""
    THEN PixCreateWithKeys(p, KeyFetchCall(A, e1, r1), e2, r2)
  ELSE PixCreateRequest(p, p.Chave, A, e2, r2)

\* Webhook.Create(): PUT /v2/webhook/{chave}, 201 required; Chave is cleared
\* before the body is marshalled.
WebhookCreateCall(w, A, e, r) ==
  ResourceCall(A, e, r, "PUT", "/v2/webhook", w.Chave, "", StatusCreated, FALSE)

\* Mutant: 200 taken as the status of a deletion.
WebhookDeleteCall_WantsOK(w, A, e, r) ==
  ResourceCall(A, e, r, "DELETE", "/v2/webhook", w.Chave, "", StatusOK, TRUE)

\* Webhook.Delete(): DELETE /v2/webhook/{chave}, 204 required; the unmarshal
\* error is ignored on 204.
WebhookDeleteCall(w, A, e, r) ==
  ResourceCall(A, e, r, "DELETE", "/v2/webhook", w.Chave, "", StatusNoContent,
               TRUE)

\* The cached token when Pix.Create() reaches its own token := OAuth().
AfterKeys(p, A, e1, r1) ==
  IF p.Chave = "" THEN KeyFetchCall(A, e1, r1).auth ELSE A

\* Whether Pix.Create() reaches its own token := OAuth().
HasKey(p, A, e1, r1) ==
  \/ p.Chave # ""
  \/ /\ KeyFetchCall(A, e1, r1).err = NoError
     /\ Len(KeyFetchCall(A, e1, r1).obj.Chaves) # 0

\* The Pix and Webhook receivers a caller may use.
PixInputs == {[TxID |-> "", Chave |-> ""], [TxID |-> "tx1", Chave |-> "k0"]}

WebhookInputs == [Chave : {"k0"}]

\* -------------------------------------------------------------- the state

\* What the last step did: the operation and its input (txid, chave), the
\* cached token before it (pre), the environment of its last exchange (env),
\* whether the OAuth() call before this operation ended in a failed exchange
\* (retry), and its outcome; for NewClient the Credentials it was called on
\* (cred) and the configuration before it (preClient, preURL).  op = "none"
\* when the caller holds no result.
NoCall ==
  [op |-> "none", txid |-> "", chave |-> "", pre |-> ZeroToken,
   env |-> EnvCertFail, ret |-> ZeroToken, err |-> NoError, reqs |-> <<>>,
   certLoads |-> 0, decoded |-> <<>>, ok200 |-> <<>>, retry |-> FALSE,
   obj |-> ZeroObject, sent |-> FALSE, status |-> 0, body |-> <<>>,
   cred |-> <<>>, preClient |-> NoClient, preURL |-> ""]

\* last after operation op with receiver fields txid, chave and result r.
Observed(op, txid, chave, r) ==
  [NoCall EXCEPT !.op = op, !.txid = txid, !.chave = chave,
                 !.pre = Authorization, !.ret = r.ret, !.err = r.err,
                 !.reqs = r.reqs, !.certLoads = r.certLoads,
                 !.decoded = r.decoded, !.ok200 = r.ok200,
                 !.retry = exchangeFailed, !.obj = r.obj, !.sent = r.sent,
                 !.status = r.status, !.body = r.body]

\* The goroutines, and a goroutine that has not called OAuth() yet: pc is
\* its place in OAuth(), tok the token it parsed from a 200 answer, ok200 the
\* body of that answer, ret the Token it returned.
Callers == 1..NumCallers

IdleCall == [pc |-> "idle", tok |-> ZeroToken, ok200 |-> <<>>, ret |-> ZeroToken]

\* The identity a token request is made with: the basic-auth pair, the
\* certificate pair presented and the host asked.  NoGrant: no token stored.
NoGrant == [ClientID |-> "", ClientSecret |-> "", CA |-> "", Key |-> "", url |-> ""]

GrantFor(c, url) ==
  [ClientID |-> c.ClientID, ClientSecret |-> c.ClientSecret, CA |-> c.CA,
   Key |-> c.Key, url |-> url]

Init ==
  /\ grantedTo = NoGrant
  /\ Client = NoClient
  /\ EFI_BASE_URL = ""
  /\ Authorization = ZeroToken
  /\ now = 0
  /\ last = NoCall
  /\ exchangeFailed = FALSE
  /\ calls = [p \in Callers |-> IdleCall]

\* The end of every call of a resource operation or of OAuth: the cached
\* token it leaves and what the caller gets.
Finish(x, observed) ==
  /\ Authorization' = x.auth
  /\ last' = observed
  /\ exchangeFailed' = IF x.called THEN x.xfail ELSE exchangeFailed
  /\ grantedTo' = IF x.ok200 # <<>> THEN GrantFor(Client[1], EFI_BASE_URL)
                  ELSE grantedTo
  /\ UNCHANGED <<Client, EFI_BASE_URL, now, calls>>

ObservedOAuth(e, o) ==
  [NoCall EXCEPT !.op = "OAuth", !.pre = Authorization, !.env = e,
                 !.ret = o.ret, !.err = o.ret.Error, !.reqs = o.reqs,
                 !.certLoads = o.certLoads, !.decoded = o.decoded,
                 !.ok200 = o.ok200, !.retry = exchangeFailed]

\* Mutant: a configuration that succeeds also clears the cached token.
NewClient_ClearsToken ==
  /\ last = NoCall
  /\ \E c \in CredentialInputs :
       /\ IF NewClientError(c) = NoError
            THEN /\ EFI_BASE_URL' = BaseURLFor(c)
                 /\ Client' = <<c>>
                 /\ Authorization' = ZeroToken
                 /\ grantedTo' = NoGrant
            ELSE UNCHANGED <<Client, EFI_BASE_URL, Authorization, grantedTo>>
       /\ last' = [NoCall EXCEPT !.op = "NewClient", !.pre = Authorization,
                                 !.err = NewClientError(c), !.cred = <<c>>,
                                 !.preClient = Client,
                                 !.preURL = EFI_BASE_URL]
       /\ UNCHANGED <<now, exchangeFailed, calls>>

\* Mutant: a configuration that succeeds leaves an earlier one in place.
NewClient_KeepsFirst ==
  /\ last = NoCall
  /\ \E c \in CredentialInputs :
       /\ IF NewClientError(c) = NoError /\ Client = NoClient
            THEN /\ EFI_BASE_URL' = BaseURLFor(c)
                 /\ Client' = <<c>>
            ELSE UNCHANGED <<Client, EFI_BASE_URL>>
       /\ last' = [NoCall EXCEPT !.op = "NewClient", !.pre = Authorization,
                                 !.err = NewClientError(c), !.cred = <<c>>,
                                 !.preClient = Client,
                                 !.preURL = EFI_BASE_URL]
       /\ UNCHANGED <<Authorization, now, exchangeFailed, calls, grantedTo>>

\* Credentials.NewClient()
NewClient ==
  /\ last = NoCall
  /\ \E c \in CredentialInputs :
       /\ IF NewClientError(c) = NoError
            THEN /\ EFI_BASE_URL' = BaseURLFor(c)
                 /\ Client' = <<c>>
            ELSE UNCHANGED <<Client, EFI_BASE_URL>>
       /\ last' = [NoCall EXCEPT !.op = "NewClient", !.pre = Authorization,
                                 !.err = NewClientError(c), !.cred = <<c>>,
                                 !.preClient = Client,
                                 !.preURL = EFI_BASE_URL]
       /\ UNCHANGED <<Authorization, now, exchangeFailed, calls, grantedTo>>

\* OAuth(), called directly.
OAuth ==
  /\ last = NoCall
  /\ \E e \in EnvFor(Authorization) :
       Finish(OAuthCall(Authorization, e),
              ObservedOAuth(e, OAuthCall(Authorization, e)))

\* Key.Fetch()
KeyFetch ==
  /\ last = NoCall
  /\ \E e \in ResEnvForToken(Authorization) :
       \E r \in ResEnvFor(Authorization, e) :
         Finish(KeyFetchCall(Authorization, e, r),
                Observed("Key.Fetch", "", "", KeyFetchCall(Authorization, e, r)))

\* Pix.Fetch()
PixFetch ==
  /\ last = NoCall
  /\ \E p \in PixInputs :
       \E e \in ResEnvForToken(Authorization) :
         \E r \in ResEnvFor(Authorization, e) :
           Finish(PixFetchCall(p, Authorization, e, r),
                  Observed("Pix.Fetch", p.TxID, p.Chave,
                           PixFetchCall(p, Authorization, e, r)))

\* Pix.Create()
PixCreate ==
  /\ last = NoCall
  /\ \E p \in PixInputs :
       \E e1 \in IF p.Chave = "" THEN ResEnvForToken(Authorization)
                  ELSE {EnvCertFail} :
         \E r1 \in IF p.Chave = "" THEN ResEnvFor(Authorization, e1)
                    ELSE {ResEnvCertFail} :
           \E e2 \in IF HasKey(p, Authorization, e1, r1)
                        THEN ResEnvForToken(AfterKeys(p, Authorization, e1, r1))
                      ELSE {EnvCertFail} :
             \E r2 \in IF HasKey(p, Authorization, e1, r1)
                          THEN ResEnvFor(AfterKeys(p, Authorization, e1, r1), e2)
                        ELSE {ResEnvCertFail} :
               Finish(PixCreateCall(p, Authorization, e1, r1, e2, r2),
                      Observed("Pix.Create", p.TxID, p.Chave,
                               PixCreateCall(p, Authorization, e1, r1, e2, r2)))

\* Webhook.Create()
WebhookCreate ==
  /\ last = NoCall
  /\ \E w \in WebhookInputs :
       \E e \in ResEnvForToken(Authorization) :
         \E r \in ResEnvFor(Authorization, e) :
           Finish(WebhookCreateCall(w, Authorization, e, r),
                  Observed("Webhook.Create", "", w.Chave,
                           WebhookCreateCall(w, Authorization, e, r)))

\* Webhook.Delete()
WebhookDelete ==
  /\ last = NoCall
  /\ \E w \in WebhookInputs :
       \E e \in ResEnvForToken(Authorization) :
         \E r \in ResEnvFor(Authorization, e) :
           Finish(WebhookDeleteCall(w, Authorization, e, r),
                  Observed("Webhook.Delete", "", w.Chave,
                           WebhookDeleteCall(w, Authorization, e, r)))

\* The caller takes the result of its call and goes on.
Return ==
  /\ last # NoCall
  /\ last' = NoCall
  /\ UNCHANGED <<Client, EFI_BASE_URL, Authorization, now, exchangeFailed,
                 calls, grantedTo>>

\* One second passes between two calls.
Tick ==
  /\ last = NoCall
  /\ now < MaxTime
  /\ now' = now + 1
  /\ UNCHANGED <<Client, EFI_BASE_URL, Authorization, last, exchangeFailed,
                 calls, grantedTo>>

Next ==
  \/ NewClient
  \/ OAuth
  \/ KeyFetch
  \/ PixFetch
  \/ PixCreate
  \/ WebhookCreate
  \/ WebhookDelete
  \/ Return
  \/ Tick

Spec == Init /\ [][Next]_vars

\* A caller that configures and asks for authorization only.  Every call is
\* synchronous and bounded by the client's timeout, so it returns.
AuthNext ==
  \/ NewClient
  \/ OAuth
  \/ Return
  \/ Tick

AuthSpec == Init /\ [][AuthNext]_vars /\ WF_vars(Return)

\* ------------------------------------------- OAuth() in concurrent goroutines

\* The state when the goroutines start: a sandbox or production configuration
\* made a second ago, and a cached token that is unset or was issued then
\* with 31 seconds to live, which is stale by now.
ConcInit ==
  /\ \E c \in ValidCredentials :
       /\ c.Timeout > 0
       /\ Client = <<c>>
       /\ EFI_BASE_URL = BaseURLFor(c)
  /\ now = 1
  /\ Authorization \in
       {ZeroToken, UnmarshalToken(TokenBody(JWT(<<ExpSeg(31)>>)))}
  /\ last = NoCall
  /\ exchangeFailed = FALSE
  /\ calls = [p \in Callers |-> IdleCall]
  /\ grantedTo = IF Authorization = ZeroToken THEN NoGrant
                 ELSE GrantFor(Client[1], EFI_BASE_URL)

\* What the environment may do to the exchange of one goroutine: the
\* certificate pair fails to load, the provider refuses, or it answers 200
\* with one of two tokens that differ in value and in remaining lifetime.
ConcEnv ==
  {EnvCertFail,
   [EnvCertFail EXCEPT !.cert = TRUE, !.status = 400, !.body = InvalidClientBody],
   [EnvCertFail EXCEPT !.cert = TRUE,
                       !.body = TokenBody(JWT(<<ExpSeg(now + 60)>>))],
   [EnvCertFail EXCEPT !.cert = TRUE,
                       !.body = [TokenBody(JWT(<<ExpSeg(now + 31)>>))
                                   EXCEPT !.expires_in = 3571]]}

\* Goroutine p goes on with its record changed to c.
Goes(p, c) == calls' = [calls EXCEPT ![p] = c]

\* if token := checkToken(); token != nil { return *token }, ck being
\* checkToken's result on the cached token as this goroutine reads it.
Checked(p, ck) ==
  IF ck.nil THEN Goes(p, [calls[p] EXCEPT !.pc = "exchange"])
  ELSE Goes(p, [calls[p] EXCEPT !.pc = "done", !.ret = ck.tok])

Check(p) ==
  /\ calls[p].pc = "idle"
  /\ Checked(p, checkToken(Authorization, now))
  /\ UNCHANGED <<Client, EFI_BASE_URL, Authorization, now, last, exchangeFailed,
                 grantedTo>>

\* From tls.LoadX509KeyPair to the status check, o being the outcome of the
\* exchange: an error is returned; the token of a 200 answer is held in the
\* local variable token, to be stored.
Responded(p, o) ==
  IF o.ok200 = <<>>
    THEN Goes(p, [calls[p] EXCEPT !.pc = "done", !.ret = o.ret])
  ELSE Goes(p, [calls[p] EXCEPT !.pc = "store", !.tok = o.ret,
                                !.ok200 = o.ok200])

Respond(p) ==
  /\ calls[p].pc = "exchange"
  /\ \E e \in ConcEnv :
       Responded(p, Exchange(Authorization, e,
                             [nil |-> TRUE, cached |-> FALSE, tok |-> ZeroToken,
                              decoded |-> <<>>]))
  /\ UNCHANGED <<Client, EFI_BASE_URL, Authorization, now, last, exchangeFailed,
                 grantedTo>>

\* Authorization = token.  The assignment copies a struct of several words
\* into the global with no synchronization, so the copy of another goroutine
\* may fall between its words: a data race.  The copy is cut once here,
\* after the first field; StoreValue copies AccessToken, StoreRest the other
\* fields and returns token.
StoreValue(p) ==
  /\ calls[p].pc = "store"
  /\ Authorization' =
       [Authorization EXCEPT !.AccessToken = calls[p].tok.AccessToken]
  /\ Goes(p, [calls[p] EXCEPT !.pc = "storing"])
  /\ grantedTo' = GrantFor(Client[1], EFI_BASE_URL)
  /\ UNCHANGED <<Client, EFI_BASE_URL, now, last, exchangeFailed>>

StoreRest(p) ==
  /\ calls[p].pc = "storing"
  /\ Authorization' =
       [calls[p].tok EXCEPT !.AccessToken = Authorization.AccessToken]
  /\ Goes(p, [calls[p] EXCEPT !.pc = "done", !.ret = calls[p].tok])
  /\ UNCHANGED <<Client, EFI_BASE_URL, now, last, exchangeFailed, grantedTo>>

ConcNext ==
  \E p \in Callers :
    \/ Check(p)
    \/ Respond(p)
    \/ StoreValue(p)
    \/ StoreRest(p)

ConcSpec == ConcInit /\ [][ConcNext]_vars

\* ------------------------------------------------------------ properties

\* The operations that call OAuth().
ResourceOps ==
  {"Key.Fetch", "Pix.Fetch", "Pix.Create", "Webhook.Create", "Webhook.Delete"}

\* The last call reached token := OAuth().
ReachedOAuth ==
  \/ last.op = "OAuth"
  \/ last.op \in ResourceOps /\ ~(last.op = "Pix.Fetch" /\ last.txid = "")

\* The token value v is header.payload.signature with the payload {"exp": n},
\* n a JSON number.
HasNumericExp(v) ==
  /\ Len(v) = 5
  /\ v[3].c = "b64:{exp:num}"
  /\ v = <<Ch("hdr"), DOT, v[3], DOT, Ch("sig")>>

\* The freshness predicate as the specification states it: a non-empty value
\* whose decoded exp is strictly after t + 30 seconds.
SpecFresh(A, t) ==
  /\ A.AccessToken # <<>>
  /\ HasNumericExp(A.AccessToken)
  /\ A.AccessToken[3].n > t + 30

\* Cold (no token value) or decodable and stale (exp at most t + 30 seconds).
SpecColdOrStale(A, t) ==
  \/ A.AccessToken = <<>>
  \/ HasNumericExp(A.AccessToken) /\ A.AccessToken[3].n <= t + 30

\* The last call was OAuth() with an active Credential Set.
ConfiguredOAuth == last.op = "OAuth" /\ Client # NoClient

\* The last call was OAuth() and its exchange got a response with a body read.
GotResponse ==
  /\ ConfiguredOAuth
  /\ last.reqs # <<>>
  /\ last.env.net = "ok"
  /\ last.env.read

\* "{type} {value}" of token A, written out.
Formatted(A) == A.TokenType \o <<Ch(" ")>> \o A.AccessToken

\* C1: while Client is nil, OAuth() and every resource operation that reaches
\* its authentication step returns the error "client not defined", hands no
\* request to the network, loads no certificate and leaves the cached token.
C1_NotConfigured ==
  (Client = NoClient /\ ReachedOAuth) =>
     /\ last.err = Err("client not defined")
     /\ last.reqs = <<>>
     /\ last.certLoads = 0
     /\ last.decoded = <<>>
     /\ Authorization = last.pre
     /\ (last.op = "OAuth" => last.ret = ErrorToken(Err("client not defined")))

\* C1 witness: Pix.Create() without a key, before any configuration, has
\* failed in the OAuth() of its Key.Fetch().
C1_Witness ==
  /\ Client = NoClient
  /\ last.op = "Pix.Create"
  /\ last.chave = ""
  /\ last.err = Err("client not defined")

\* C2 as the specification states it: with a sandbox configuration and the
\* cached token {access_token "abc", token_type "Bearer", expires_in 3600} of
\* a 200 exchange, the next OAuth() returns the token formatted "Bearer abc",
\* with no error and no token request.
C2_Original ==
  (/\ ConfiguredOAuth
   /\ Client[1].Sandbox
   /\ last.pre.AccessToken = <<Ch("abc")>>
   /\ last.pre.TokenType = <<Ch("Bearer")>>
   /\ last.pre.ExpiresIn = 3600) =>
     /\ last.err = NoError
     /\ Formatted(last.ret) = <<Ch("Bearer"), Ch(" "), Ch("abc")>>
     /\ last.reqs = <<>>

\* C2 amended: with a sandbox configuration, every token request goes to
\* POST {staging host}/oauth/token, and with the cached token {access_token a
\* three-segment token whose exp is after now + 30 s, token_type "Bearer",
\* expires_in 3600} the next OAuth() returns the token formatted
\* "Bearer <access_token>", with no error and no token request.
C2_Scenario ==
  /\ (ConfiguredOAuth /\ Client[1].Sandbox) =>
        \A i \in 1..Len(last.reqs) :
          /\ last.reqs[i].base = "https://pix-h.api.efipay.com.br"
          /\ last.reqs[i].path = "/oauth/token"
          /\ last.reqs[i].method = "POST"
  /\ (/\ ConfiguredOAuth
      /\ Client[1].Sandbox
      /\ SpecFresh(last.pre, now)
      /\ last.pre.TokenType = <<Ch("Bearer")>>
      /\ last.pre.ExpiresIn = 3600) =>
        /\ last.err = NoError
        /\ Formatted(last.ret)
             = <<Ch("Bearer"), Ch(" ")>> \o last.pre.AccessToken
        /\ last.reqs = <<>>

\* C2 witness: a second after the exchange, OAuth() has answered from the
\* cache of a sandbox configuration.
C2_Witness ==
  /\ ConfiguredOAuth
  /\ Client[1].Sandbox
  /\ now > 0
  /\ SpecFresh(last.pre, now)
  /\ last.pre.TokenType = <<Ch("Bearer")>>
  /\ last.pre.ExpiresIn = 3600
  /\ last.ret = last.pre
  /\ last.reqs = <<>>

\* C3: with an active Credential Set and a fresh cached token, OAuth() returns
\* the cached token with no error, hands no request to the network, loads no
\* certificate and leaves the cached token as it was.
C3_FreshFromCache ==
  (ConfiguredOAuth /\ SpecFresh(last.pre, now)) =>
     /\ last.ret = last.pre
     /\ last.err = NoError
     /\ last.ret.Error = NoError
     /\ last.reqs = <<>>
     /\ last.certLoads = 0
     /\ Authorization = last.pre

\* C3 witness: OAuth() has answered from a fresh cache.
C3_Witness ==
  /\ ConfiguredOAuth
  /\ SpecFresh(last.pre, now)
  /\ last.ret = Authorization
  /\ last.certLoads = 0

\* OAuth() answered from the cache: no error and no exchange begun.
FromCache == last.err = NoError /\ last.certLoads = 0 /\ last.reqs = <<>>

\* C4: the freshness check takes the cached token as fresh exactly when its
\* value is non-empty and its decoded exp is strictly after now + 30: exp =
\* now + 31 is fresh, exp = now + 30, now + 29 and now are not, and an empty
\* value is not fresh and is not handed to the decoder.
C4_FreshnessCheck ==
  /\ checkToken(Authorization, now).cached <=> SpecFresh(Authorization, now)
  /\ ConfiguredOAuth =>
       /\ FromCache <=> SpecFresh(last.pre, now)
       /\ \A i \in 1..Len(last.decoded) : last.decoded[i] # <<>>
       /\ last.pre.AccessToken = <<>> => last.decoded = <<>>
       /\ \A d \in {0, 29, 30} :
            last.pre.AccessToken = JWT(<<ExpSeg(now + d)>>) => ~FromCache
       /\ last.pre.AccessToken = JWT(<<ExpSeg(now + 31)>>) => FromCache

\* C4 witness: a cached token whose exp is now + 30 was not taken as fresh.
C4_Witness ==
  /\ ConfiguredOAuth
  /\ last.pre.AccessToken = JWT(<<ExpSeg(now + 30)>>)
  /\ last.certLoads = 1

\* C5: with an active Credential Set and a cached token that is empty, or
\* decodable and stale, OAuth() begins an exchange (it loads the certificate
\* pair and, once loaded, hands one token request to the network) and what it
\* returns is the result of that exchange, not the cached token.
C5_StaleExchanges ==
  (ConfiguredOAuth /\ SpecColdOrStale(last.pre, now)) =>
     /\ last.certLoads = 1
     /\ last.env.cert => Len(last.reqs) = 1 /\ last.reqs[1].path = "/oauth/token"
     /\ ~FromCache
     /\ last.err = NoError => last.ok200 # <<>>

\* C5 witness: a token that was fresh when issued is 25 seconds from expiry,
\* and OAuth() has sent a token request.
C5_Witness ==
  /\ ConfiguredOAuth
  /\ last.pre.AccessToken = JWT(<<ExpSeg(now + 25)>>)
  /\ Len(last.reqs) = 1
  /\ last.ok200 # <<>>

\* C6: when the exchange gets 200 with a JSON body, the token parsed from the
\* body is returned with no error and is the cached token afterwards.
C6_Replaces ==
  (GotResponse /\ last.env.status = 200 /\ last.env.body.json) =>
     /\ last.err = NoError
     /\ last.ret.Error = NoError
     /\ last.ret.AccessToken = last.env.body.access_token
     /\ last.ret.TokenType = last.env.body.token_type
     /\ last.ret.ExpiresIn = last.env.body.expires_in
     /\ last.ret.Scope = last.env.body.scope
     /\ Authorization = last.ret

\* C6 witness: an exchange has replaced a stale cached token by another one.
C6_Witness ==
  /\ GotResponse
  /\ last.env.status = 200
  /\ last.pre.AccessToken # <<>>
  /\ Authorization.AccessToken # <<>>
  /\ Authorization # last.pre

\* C7 as the specification states it: on any non-200 answer OAuth() returns
\* an error wrapping the response body and no usable token, and a cached
\* token that was unset stays unset.
C7_Original ==
  (GotResponse /\ last.env.status # 200) =>
     /\ last.err.msg = "bad request"
     /\ last.err.raw = <<last.env.body>>
     /\ last.ret.AccessToken = <<>>
     /\ last.pre = ZeroToken => Authorization = ZeroToken

\* C7 amended: on any non-200 answer OAuth() returns an error and no usable
\* token and leaves the cached token as it was; when the body is JSON that
\* unmarshals, the error is "bad request" wrapping the response body.
C7_ProviderError ==
  (GotResponse /\ last.env.status # 200) =>
     /\ last.err # NoError
     /\ last.ret.AccessToken = <<>>
     /\ Authorization = last.pre
     /\ last.env.body.json =>
          last.err.msg = "bad request" /\ last.err.raw = <<last.env.body>>

\* C7 witness: 400 with {"error": "invalid_client"} on a cold cache.
C7_Witness ==
  /\ GotResponse
  /\ last.env.status = 400
  /\ last.env.body.error = "invalid_client"
  /\ last.pre = ZeroToken
  /\ Authorization = ZeroToken
  /\ last.err.msg = "bad request"

\* C8 as the specification states it: on a non-200 answer whose body is
\* JSON, the Token handed to the caller carries the Structured API Error
\* decoded from the body, together with the raw body.
C8_CarriesStructuredError ==
  (GotResponse /\ last.env.status # 200 /\ last.env.body.json) =>
     /\ last.err.raw = <<last.env.body>>
     /\ last.ret.BadRequest.Name = last.env.body.name
     /\ last.ret.BadRequest.Message = last.env.body.message
     /\ last.ret.BadRequest.Error = last.env.body.error
     /\ last.ret.BadRequest.ErrorDescription = last.env.body.error_description
     /\ last.ret.BadRequest.Errors = last.env.body.errors

\* The token a 200 body b unmarshals to.
Granted(b) ==
  [AccessToken |-> b.access_token, TokenType |-> b.token_type,
   ExpiresIn |-> b.expires_in, Scope |-> b.scope, Error |-> NoError,
   BadRequest |->
     [Name |-> b.name, Message |-> b.message, Error |-> b.error,
      ErrorDescription |-> b.error_description, Errors |-> b.errors]]

\* C9: the cached token changes only where an exchange has got 200 with a
\* body that unmarshals, and then to the token of that body; a step with no
\* such exchange (configuration, a call answered from the cache, a failed
\* exchange, the request of a resource operation) leaves it as it was.
C9_Frame ==
  [][Authorization' =
       IF last'.ok200 = <<>> THEN Authorization
       ELSE Granted(last'.ok200[Len(last'.ok200)])]_vars

\* C9 witness: a re-configuration has succeeded and the cached token of the
\* configuration before is still there.
C9_Witness ==
  /\ last.op = "NewClient"
  /\ last.err = NoError
  /\ last.pre.AccessToken # <<>>
  /\ Authorization = last.pre

\* The last OAuth() began an exchange that failed.
FailedExchange == ConfiguredOAuth /\ last.certLoads > 0 /\ last.ok200 = <<>>

\* C10: one OAuth() hands at most one token request to the network; a failed
\* exchange ends the call with an error and the cached token as it was; and
\* the OAuth() after a failed exchange begins a new exchange and returns its
\* token with no error when that exchange gets 200 with a body that
\* unmarshals.
C10_NoRetry ==
  /\ last.op = "OAuth" => Len(last.reqs) <= 1 /\ last.certLoads <= 1
  /\ FailedExchange =>
       /\ last.err # NoError
       /\ Authorization = last.pre
       /\ exchangeFailed
  /\ (ConfiguredOAuth /\ last.retry) =>
       /\ last.certLoads = 1
       /\ last.env.cert => Len(last.reqs) = 1
       /\ (GotResponse /\ last.env.status = 200 /\ last.env.body.json) =>
            last.err = NoError /\ last.ret = Granted(last.env.body)

\* C10 witness: the OAuth() after a failed exchange has got 200 and returned
\* its token.
C10_Witness ==
  /\ ConfiguredOAuth
  /\ last.retry
  /\ GotResponse
  /\ last.env.status = 200
  /\ last.err = NoError
  /\ last.ret.AccessToken # <<>>

\* The number of dot-separated segments of the token value v.
SegmentCount(v) == Cardinality({i \in 1..Len(v) : v[i] = Ch(".")}) + 1

\* The middle segment of a three-segment token value v.
MiddleOf(v) ==
  LET dots == {i \in 1..Len(v) : v[i] = Ch(".")}
      d1 == CHOOSE i \in dots : \A j \in dots : i <= j
      d2 == CHOOSE i \in dots : \A j \in dots : j <= i IN
  SubSeq(v, d1 + 1, d2 - 1)

\* The segment m has a character outside the base64url alphabet.
BadEncoding(m) == \E i \in 1..Len(m) : m[i] = Ch("!!")

\* The segment m is the base64url text of a JSON object.
ObjectPayload(m) ==
  /\ Len(m) = 1
  /\ m[1].c \in {"b64:{exp:num}", "b64:{exp:str}", "b64:{}"}

\* The token value v decodes to claims as the specification has it: three
\* segments, the middle one the base64url text of a JSON object.
SpecDecodable(v) == SegmentCount(v) = 3 /\ ObjectPayload(MiddleOf(v))

\* The errors of the claims decoder.
DecodeErrors ==
  {"invalid token: must have 3 parts", "failed to decode token payload",
   "failed to decode JSON payload"}

\* C11 as the specification states it: with an active Credential Set and a
\* cached token value that is non-empty and cannot be decoded (a segment count
\* other than three, a middle segment that is not base64url, a payload that is
\* not a JSON object), OAuth() returns the decoder's error and begins no
\* exchange: it loads no certificate, sends no request and leaves the cache.
C11_DecodeFailureSurfaces ==
  (/\ ConfiguredOAuth
   /\ last.pre.AccessToken # <<>>
   /\ ~SpecDecodable(last.pre.AccessToken)) =>
     /\ last.err.msg \in DecodeErrors
     /\ last.ret = ErrorToken(last.err)
     /\ last.reqs = <<>>
     /\ last.certLoads = 0
     /\ Authorization = last.pre

\* C12: when tls.LoadX509KeyPair fails in the exchange of OAuth(), the call
\* returns the certificate error, has sent no token request, has tried the
\* load once and leaves the cached token as it was.
C12_CertErrorTerminal ==
  (ConfiguredOAuth /\ last.certLoads > 0 /\ ~last.env.cert) =>
     /\ last.err.msg = "failed to load certificates"
     /\ last.ret = ErrorToken(last.err)
     /\ last.reqs = <<>>
     /\ last.certLoads = 1
     /\ last.ok200 = <<>>
     /\ Authorization = last.pre

\* C12 witness: the certificate pair failed to load on a stale cached token,
\* which is still the cached token.
C12_Witness ==
  /\ ConfiguredOAuth
  /\ ~last.env.cert
  /\ last.certLoads = 1
  /\ last.pre.AccessToken # <<>>
  /\ Authorization = last.pre
  /\ last.err.msg = "failed to load certificates"

\* The Credentials c have every required field present and both files exist.
SpecValid(c) ==
  /\ c.ClientID # ""
  /\ c.ClientSecret # ""
  /\ c.Timeout # 0
  /\ c.CA \in {"ca.pem", "key.pem"}
  /\ c.Key \in {"ca.pem", "key.pem"}

\* C13: NewClient() on Credentials with every required field present and both
\* files existing returns no error, makes them the active Credential Set in
\* place of any earlier one, and sets the base URL to the staging host when
\* Sandbox is true and to the production host when it is false.
C13_ConfigurationSucceeds ==
  (last.op = "NewClient" /\ SpecValid(last.cred[1])) =>
     /\ last.err = NoError
     /\ Client = last.cred
     /\ EFI_BASE_URL = IF last.cred[1].Sandbox
                         THEN "https://pix-h.api.efipay.com.br"
                         ELSE "https://pix.api.efipay.com.br"

\* C13 witness: a production configuration has replaced a sandbox one.
C13_Witness ==
  /\ last.op = "NewClient"
  /\ last.err = NoError
  /\ last.preClient # NoClient
  /\ last.preClient[1].Sandbox
  /\ Client = last.cred
  /\ ~Client[1].Sandbox
  /\ EFI_BASE_URL = "https://pix.api.efipay.com.br"

\* The required fields that Credentials c leave at the zero value.
MissingFields(c) ==
  {f \in {"ClientID", "ClientSecret", "Timeout", "CA", "Key"} :
     \/ f = "ClientID" /\ c.ClientID = ""
     \/ f = "ClientSecret" /\ c.ClientSecret = ""
     \/ f = "Timeout" /\ c.Timeout = 0
     \/ f = "CA" /\ c.CA = ""
     \/ f = "Key" /\ c.Key = ""}

\* C14: NewClient() on Credentials that miss a required field or name a
\* certificate or key file that does not exist returns an error (naming the
\* missing fields, or else the missing file) and leaves the active Credential
\* Set and the base URL, or their absence, as they were.
C14_ConfigurationFails ==
  (last.op = "NewClient" /\ ~SpecValid(last.cred[1])) =>
     /\ last.err # NoError
     /\ Client = last.preClient
     /\ EFI_BASE_URL = last.preURL
     /\ MissingFields(last.cred[1]) # {} =>
          last.err.fields = MissingFields(last.cred[1])
     /\ MissingFields(last.cred[1]) = {} =>
          last.err.path \in {last.cred[1].CA, last.cred[1].Key}
          /\ last.err.path \notin {"ca.pem", "key.pem"}

\* C14 witness: a configuration naming a key file that does not exist has
\* failed and the configuration before it is still the active one.
C14_Witness ==
  /\ last.op = "NewClient"
  /\ last.cred[1].Key = "missing.pem"
  /\ last.err.path = "missing.pem"
  /\ last.preClient # NoClient
  /\ Client = last.preClient
  /\ Client # last.cred

\* C15 as the specification states it: the active Credential Set, if any,
\* has a non-empty client id, client secret, certificate path and key path
\* and a timeout that is a positive integer.
C15_ActiveCredentialsValid ==
  Client # NoClient =>
     /\ Client[1].ClientID # ""
     /\ Client[1].ClientSecret # ""
     /\ Client[1].CA # ""
     /\ Client[1].Key # ""
     /\ Client[1].Timeout > 0

\* The places in last.reqs of the requests to resource endpoints.
ResourceReqs == {i \in 1..Len(last.reqs) : last.reqs[i].path # "/oauth/token"}

\* The tokens that were the cached token at some time during the last call.
CachedDuring == {last.pre} \cup {Granted(last.ok200[i]) : i \in 1..Len(last.ok200)}

\* C16: a resource operation sends its request only after OAuth() has
\* returned with no error; when OAuth() returns an error the operation
\* returns that error and sends no request; the request is the last one of
\* the call and carries the header authorization "{token_type} {access_token}"
\* of the cached token, and every resource request of the call carries that
\* header of a token that was the cached token during the call.
C16_AuthorizesFirst ==
  last.op \in ResourceOps =>
     /\ last.sent => ReachedOAuth /\ last.ret.Error = NoError
     /\ last.ret.Error # NoError => last.err = last.ret.Error /\ ~last.sent
     /\ last.sent =>
          /\ Len(last.reqs) \in ResourceReqs
          /\ last.reqs[Len(last.reqs)].authorization = Formatted(Authorization)
          /\ last.reqs[Len(last.reqs)].contentType = "application/json"
     /\ ~last.sent /\ last.op # "Pix.Create" => ResourceReqs = {}
     /\ \A i \in ResourceReqs :
          \E T \in CachedDuring : last.reqs[i].authorization = Formatted(T)
     /\ Cardinality(ResourceReqs) <= IF last.op = "Pix.Create" THEN 2 ELSE 1

\* C16 witness: Pix.Fetch() has exchanged a stale token for a new one and
\* sent its request with the new one.
C16_Witness ==
  /\ last.op = "Pix.Fetch"
  /\ last.sent
  /\ last.pre.AccessToken # <<>>
  /\ last.ok200 # <<>>
  /\ Len(last.reqs) = 2
  /\ last.reqs[1].path = "/oauth/token"
  /\ last.reqs[2].authorization
       = <<Ch("Bearer"), Ch(" ")>> \o Authorization.AccessToken
  /\ Authorization # last.pre

\* The status a resource operation requires.
Want(op) ==
  IF op \in {"Pix.Fetch", "Key.Fetch"} THEN 200
  ELSE IF op \in {"Pix.Create", "Webhook.Create"} THEN 201
  ELSE 204

\* C17: a resource operation returns no error only when its request got the
\* status required for it (200 for Pix.Fetch and Key.Fetch, 201 for
\* Pix.Create and Webhook.Create, 204 for Webhook.Delete); on any other
\* status it returns an error, and when the body is JSON the provider's error
\* fields are in the operation's result object.
C17_StatusRequired ==
  last.op \in ResourceOps =>
     /\ last.err = NoError => last.sent /\ last.status = Want(last.op)
     /\ (last.body # <<>> /\ last.status # Want(last.op)) =>
          /\ last.err # NoError
          /\ last.body[1].json =>
               /\ last.err.msg = "bad request"
               /\ last.obj.BadRequest = last.body[1].badRequest

\* C17 witness: Webhook.Delete() got 200 with the provider's error fields.
C17_Witness ==
  /\ last.op = "Webhook.Delete"
  /\ last.status = 200
  /\ last.body # <<>>
  /\ last.err.msg = "bad request"
  /\ last.obj.BadRequest.Name = "chave_invalida"

\* C19 as the specification states it: of every token value handed to the
\* decoder, one with a segment count other than three fails as malformed
\* before any base64 or JSON decoding, a three-segment one with a middle
\* segment that is not base64url fails with the encoding error, a
\* three-segment one whose payload is not a JSON object fails with the
\* payload error, and no other is refused.
C19_DecoderChecksSegments ==
  \A i \in 1..Len(last.decoded) :
    LET v == last.decoded[i]
        d == decodeJWT(v) IN
    /\ SegmentCount(v) # 3 =>
         /\ d.err.msg = "invalid token: must have 3 parts"
         /\ ~d.b64
         /\ ~d.json
    /\ (SegmentCount(v) = 3 /\ BadEncoding(MiddleOf(v))) =>
         d.err.msg = "failed to decode token payload"
    /\ (SegmentCount(v) = 3 /\ ~BadEncoding(MiddleOf(v))
        /\ ~ObjectPayload(MiddleOf(v))) =>
         d.err.msg = "failed to decode JSON payload"
    /\ SpecDecodable(v) => d.err = NoError

\* Every goroutine has returned from OAuth().
AllDone == \A p \in Callers : calls[p].pc = "done"

\* The goroutines whose exchange got 200 with a body that unmarshals.
Got200 == {p \in Callers : calls[p].ok200 # <<>>}

\* C18 as the specification states it: with goroutines calling OAuth()
\* concurrently on a cold or stale cache, every goroutine whose exchange got
\* 200 returns the token of its own answer, and once all have returned and
\* one of them got 200, the cached token is the whole token of one of the
\* 200 answers: not a mixture, and not the token cached before.
C18_ConcurrentExchangesBenign ==
  /\ \A p \in Got200 :
       calls[p].pc = "done" => calls[p].ret = Granted(calls[p].ok200[1])
  /\ (AllDone /\ Got200 # {}) =>
       \E p \in Got200 : Authorization = Granted(calls[p].ok200[1])

\* The last call of OAuth(), if it began an exchange, loaded the certificate
\* pair and got 200 with a well-formed token that lives 60 seconds.
GoodAnswer ==
  (last.op = "OAuth" /\ last.certLoads > 0) =>
     /\ last.env.cert
     /\ last.env.net = "ok"
     /\ last.env.read
     /\ last.env.status = 200
     /\ last.env.body.access_token = JWT(<<ExpSeg(now + 60)>>)
     /\ last.env.body.token_type = <<Ch("Bearer")>>

\* C20 as the specification states it: if from some point on every exchange
\* is answered with 200 and a well-formed, long-lived token, and the caller
\* with an active Credential Set keeps calling OAuth(), then again and again
\* a call of OAuth() returns a token with no error.
C20_NoPermanentFailure ==
  (<>[]GoodAnswer /\ []<>ConfiguredOAuth) =>
     []<>(ConfiguredOAuth /\ last.err = NoError)

\* C21 as the specification states it: whenever OAuth() returns a token with
\* no error, from the cache or from an exchange just completed, the token
\* satisfies the freshness predicate at that moment: its value is non-empty
\* and decodes to claims whose exp is strictly after now + 30 seconds.
C21_ReturnedTokensFresh ==
  (last.op = "OAuth" /\ last.err = NoError) => SpecFresh(last.ret, now)

\* C22 as the specification states it: every token OAuth() returns with no
\* error, and every token whose authorization header a resource operation
\* sends, was issued in an exchange made with the client id, client secret
\* and certificate pair of the active Credential Set at the active base URL;
\* a token cached under an earlier, different configuration is never
\* returned or sent.
C22_TokenOfActiveCredentials ==
  ((last.op = "OAuth" /\ last.err = NoError)
   \/ (last.op \in ResourceOps /\ last.sent)) =>
     /\ grantedTo.ClientID = Client[1].ClientID
     /\ grantedTo.ClientSecret = Client[1].ClientSecret
     /\ grantedTo.CA = Client[1].CA
     /\ grantedTo.Key = Client[1].Key
     /\ grantedTo.url = EFI_BASE_URL

====
